---- MODULE Spec2Model ----
(***************************************************************************)
(* State-machine model of the compliance-server backend: the invoice /     *)
(* payment ledger (app/services/financial_service.py), the client          *)
(* registry (app/services/client_service.py) and the authentication flow   *)
(* (app/api/api_v1/endpoints/auth.py, app/services/user_service.py).       *)
(*                                                                         *)
(* Money is counted in cents (the Decimal values the schemas admit have    *)
(* two decimal places); tax rates in hundredths of a percent; the exact    *)
(* Decimal products of the service are counted in 1/Scale of a cent.       *)
(* The store is the PostgreSQL database app/core/database.py connects to:  *)
(* Numeric(15, 2) columns round to two places, Enum columns accept only    *)
(* the members of their Python enum, unique / foreign-key / not-null       *)
(* constraints reject the commit that violates them.                       *)
(***************************************************************************)
EXTENDS Integers, Sequences, FiniteSets, TLC

\* ------------------------------------------------------------------ bounds
MaxInvoices == 1
MaxNumbered == 2
MaxItems == 2
MaxPayments == 1
MaxClients == 3
MaxUsers == 3
MaxAuditLogs == 2
MaxTokens == 1
MaxClock == 60
TickMinutes == 30
MaxRequests == 2

\* --------------------------------------------------------------- variables
VARIABLES
    today,          \* date.today() of the process: [year, month]
    invoices,       \* invoices table: id -> row
    items,          \* invoice_items table: set of rows
    payments,       \* payments table: set of rows
    nextInvoiceId,  \* invoices.id sequence
    nextItemId,     \* invoice_items.id sequence
    nextPaymentId,  \* payments.id sequence
    clients,        \* clients table: id -> row
    nextClientId,   \* clients.id sequence
    users,          \* users table: id -> row
    nextUserId,     \* users.id sequence
    audit_logs,     \* audit_logs table: set of rows
    now,            \* the clock, in minutes
    issued,         \* the bearer tokens login has issued, each with the user it was issued to
    requests,       \* the requests in progress: request id -> its position and locals
    service,        \* the process: its phase of life and whether the store is reachable
    last            \* the last request: operation, target id, outcome

ledgerVars == <<invoices, items, payments, nextInvoiceId, nextItemId, nextPaymentId>>
clientVars == <<clients, nextClientId>>
authVars == <<users, nextUserId, audit_logs, now, issued>>
vars == <<today, invoices, items, payments, nextInvoiceId, nextItemId, nextPaymentId,
          clients, nextClientId, users, nextUserId, audit_logs,
          now, issued, requests, service, last>>

\* ------------------------------------------------------------ value spaces
\* tax products are exact to 1/Scale of a cent: (rate/100 %) * cents / 100
Scale == 10000

RECURSIVE Digits(_, _)
\* decimal digits of n, zero-padded on the left to at least width w
\* (the d-format of an f-string: {n:0wd})
Digits(n, w) ==
    IF n < 10 /\ w <= 1 THEN <<n>>
    ELSE Append(Digits(n \div 10, w - 1), n % 10)

\* an invoice number, as the three parts of "PREFIX-YYYYMM-NNNN"
NoNumber == [prefix |-> "", ym |-> <<>>, seq |-> <<>>]
CustomNumber == [prefix |-> "BILL", ym |-> <<>>, seq |-> <<7>>]

InvNumber(year, month, n) ==
    [prefix |-> "INV", ym |-> Digits(year, 1) \o Digits(month, 2), seq |-> Digits(n, 4)]

\* InvoiceStatus: the members the invoices.status column accepts
InvoiceStatus == {"draft", "sent", "paid", "overdue", "cancelled"}
\* PaymentStatus
PaymentStatus == {"pending", "completed", "failed", "cancelled"}

\* Numeric(15, 2): the store rounds a value to two decimal places, ties
\* away from zero; x is in 1/Scale of a cent, the result in cents
Numeric2(x) ==
    IF x >= 0 THEN (x + Scale \div 2) \div Scale
    ELSE 0 - ((0 - x + Scale \div 2) \div Scale)

\* InvoiceUpdate fields left out of the request (exclude_unset)
Unset == -1
UnsetNumber == [prefix |-> "unset", ym |-> <<>>, seq |-> <<>>]

\* inputs of the requests
Months == {[year |-> 2026, month |-> 11], [year |-> 2026, month |-> 12]}
ItemKinds == {[total_price |-> 10000, tax_rate |-> 1800],
              [total_price |-> 1, tax_rate |-> 1800],
              [total_price |-> 1, tax_rate |-> 5000]}
ItemLists == UNION {[1..n -> ItemKinds] : n \in 0..MaxItems}
SuppliedTotals == {0, 99900}
LedgerItemLists == {its \in ItemLists : Len(its) <= 1 /\ \A k \in 1..Len(its) : its[k].tax_rate = 1800}
UpdateAmounts == {Unset, 5000}
SuppliedNumbers(d) == {NoNumber, CustomNumber, InvNumber(d.year, d.month, 2)}
PaymentAmounts == {1, 11800}
PaymentStatusInputs == PaymentStatus \cup {"unset"}

\* a bearer token: the claims of its payload and the key that signed it
NoToken == [sub |-> "", exp |-> 0, key |-> ""]

NoLast == [op |-> "none", id |-> 0, result |-> "none", number |-> NoNumber,
           generated |-> FALSE, token |-> NoToken, name |-> "", password |-> "",
           at |-> 0, email |-> "", seen |-> {}]

\* ---------------------------------------------------------------- settings
ACCESS_TOKEN_EXPIRE_MINUTES == 30
SECRET_KEY == "your-secret-key-change-in-production"

\* ------------------------------------------------- app/core/security.py
\* a one-way hash: equal exactly for equal passwords
get_password_hash(password) == <<"hashed", password>>

verify_password(plain_password, hashed_password) ==
    hashed_password = get_password_hash(plain_password)

\* the token binds the claims and an expiry of clock + expires_delta
create_access_token(sub, clock, expires_delta) ==
    [sub |-> sub, exp |-> clock + expires_delta, key |-> SECRET_KEY]

\* TRUE: the payload is returned; FALSE: JWTError (bad signature or expired)
verify_token(token, clock) ==
    /\ token.key = SECRET_KEY
    /\ clock <= token.exp

\* ------------------------------------------------------------------- users
UserStatus == {"active", "inactive", "suspended", "pending"}
UserRole == {"admin", "manager", "accountant", "auditor", "data_entry", "client"}
Never == -1

SeededUsers ==
    <<[username |-> "admin", email |-> "admin@compliance.com",
       hashed_password |-> get_password_hash("admin123"),
       role |-> "admin", status |-> "active", last_login |-> Never],
      [username |-> "demo", email |-> "demo@compliance.com",
       hashed_password |-> get_password_hash("demo123"),
       role |-> "client", status |-> "active", last_login |-> Never]>>

\* startup_event on empty tables: the default users are created when the
\* store is reachable; otherwise the error is logged and nothing is stored
StartupUsers(reachable) == IF reachable THEN SeededUsers ELSE <<>>

Usernames == {"admin", "demo", "carol"}
Passwords == {"admin123", "demo123", "wrong"}
Emails == {"admin@compliance.com", "carol@example.com"}
ForgedTokens ==
    {[sub |-> "admin", exp |-> MaxClock + ACCESS_TOKEN_EXPIRE_MINUTES, key |-> "forged-key"]}

\* ----------------------------------------------------------------- clients
\* Client.gstin: None ("null"), the empty string, or a registration number
Gstins == {"null", "", "27AAAAA0000A1Z5", "29BBBBB1111B2Z6"}

\* -------------------------------------------------------------------- Init
\* the tables are empty when the process is first started; startup_event
\* then seeds the default users when the store is reachable
InitLedger ==
    /\ invoices = <<>>
    /\ items = {}
    /\ payments = {}
    /\ nextInvoiceId = 1
    /\ nextItemId = 1
    /\ nextPaymentId = 1

InitClients ==
    /\ clients = <<>>
    /\ nextClientId = 1

\* the process after startup: it serves, the store is reachable, no request
\* is in progress
Serving == [phase |-> "serving", store |-> "up"]

InitService ==
    /\ requests = <<>>
    /\ service = Serving

InitAuth(reachable) ==
    /\ users = StartupUsers(reachable)
    /\ nextUserId = Cardinality(DOMAIN StartupUsers(reachable)) + 1
    /\ audit_logs = {}
    /\ now = 0
    /\ issued = {}

Init ==
    /\ today \in Months
    /\ InitLedger
    /\ InitClients
    /\ InitAuth(TRUE)
    /\ InitService
    /\ last = NoLast

\* ---------------------------------------------------------- ledger helpers
RECURSIVE SumSeq(_)
\* Python sum() over a list
SumSeq(s) == IF s = <<>> THEN 0 ELSE Head(s) + SumSeq(Tail(s))

\* get_invoice: the row or None
get_invoice(id) == id \in DOMAIN invoices

\* the numbers in use (unique index on invoices.invoice_number)
NumbersInUse == {invoices[i].invoice_number : i \in DOMAIN invoices}

\* _generate_invoice_number: count of the invoices created in the current
\* month, plus one.  In December the second conjunct handed to and_() is a
\* datetime, not a clause (the conditional expression binds weaker than <),
\* and building the query raises ArgumentError.
GenerateFails(d) == d.month = 12

MonthCount(d) ==
    Cardinality({i \in DOMAIN invoices :
        /\ invoices[i].created.year = d.year
        /\ invoices[i].created.month = d.month})

\* the number when every request in flight reserved its sequence number
generate_invoice_number_reserved(d) ==
    InvNumber(d.year, d.month,
              MonthCount(d) + 1 +
              Cardinality({q \in DOMAIN requests :
                              requests[q].pc = "commit" /\ requests[q].generated}))

generate_invoice_number(d) == InvNumber(d.year, d.month, MonthCount(d) + 1)

\* invoices.invoice_number is unique: the store refuses a commit that would
\* give the number to a second row
invoice_number_unchecked(number, id) == FALSE

invoice_number_taken(number, id) ==
    \E j \in DOMAIN invoices : j # id /\ invoices[j].invoice_number = number

\* create_invoice, the totals (lines 50-60), in 1/Scale of a cent; the
\* update() overwrites the subtotal, tax_amount and total_amount of the request
Subtotal(its) == SumSeq([k \in 1..Len(its) |-> its[k].total_price]) * Scale
TaxAmount(its) ==
    SumSeq([k \in 1..Len(its) |-> its[k].tax_rate * its[k].total_price])

\* the totals when the update() of lines 56-60 is left out
InvoiceTotalsAsSupplied(its, supSub, supTax, supTotal) ==
    [subtotal |-> supSub, tax_amount |-> supTax, total_amount |-> supTotal]

InvoiceTotals(its, supSub, supTax, supTotal) ==
    [subtotal |-> Subtotal(its),
     tax_amount |-> TaxAmount(its),
     total_amount |-> Subtotal(its) + TaxAmount(its)]

\* ------------------------------------------------------------ create_invoice
create_invoice(supplied, its, supSub, supTax, supTotal) ==
    /\ LET generated == supplied = NoNumber
           number == IF generated THEN generate_invoice_number(today) ELSE supplied
           id == nextInvoiceId
           totals == InvoiceTotals(its, supSub * Scale, supTax * Scale, supTotal * Scale)
           row == [invoice_number |-> number,
                   subtotal |-> Numeric2(totals.subtotal),
                   tax_amount |-> Numeric2(totals.tax_amount),
                   total_amount |-> Numeric2(totals.total_amount),
                   status |-> "draft",
                   created |-> today]
       IN IF generated /\ GenerateFails(today)
          THEN /\ last' = [NoLast EXCEPT !.op = "create_invoice",
                                         !.result = "ArgumentError", !.generated = TRUE]
               /\ UNCHANGED ledgerVars
          ELSE IF number \in NumbersInUse
          THEN \* unique constraint: the first commit fails, nothing is stored
               /\ last' = [NoLast EXCEPT !.op = "create_invoice",
                                         !.result = "IntegrityError", !.number = number,
                                         !.generated = generated]
               /\ UNCHANGED ledgerVars
          ELSE /\ invoices' = [i \in DOMAIN invoices \cup {id} |->
                                  IF i = id THEN row ELSE invoices[i]]
               /\ items' = items \cup
                     {[id |-> nextItemId + k - 1, invoice_id |-> id,
                       total_price |-> its[k].total_price,
                       tax_rate |-> its[k].tax_rate] : k \in 1..Len(its)}
               /\ nextInvoiceId' = nextInvoiceId + 1
               /\ nextItemId' = nextItemId + Len(its)
               /\ last' = [NoLast EXCEPT !.op = "create_invoice", !.id = id,
                                         !.result = "ok", !.number = number,
                                         !.generated = generated]
               /\ UNCHANGED <<payments, nextPaymentId>>
    /\ UNCHANGED <<today, requests, service, clientVars, authVars>>

PaymentsOf(id) == {p \in payments : p.invoice_id = id}
ItemsOf(id) == {it \in items : it.invoice_id = id}

\* --------------------------------------- create_invoice, commit by commit
\* a request in progress: its operation, the statement it is at, the invoice
\* it works on, the items it still holds and what it read
NewRequest(op, pc, id) ==
    [op |-> op, pc |-> pc, id |-> id, items |-> <<>>, payment |-> 0,
     seen |-> {}, status |-> "", number |-> NoNumber, generated |-> FALSE,
     count |-> 0, gstin |-> ""]

RequestIds == 1..MaxRequests

\* Numeric(5, 2), in hundredths: the column takes at most 999.99
MaxTaxRate == 99999
StepItemKinds == {[total_price |-> 10000, tax_rate |-> 1800],
                  [total_price |-> 100, tax_rate |-> MaxTaxRate + 1]}
StepItemLists == UNION {[1..n -> StepItemKinds] : n \in 0..1}

\* lines 46-66: the number and the totals, the invoice row, the first commit
create_invoice_commit_invoice(r, supplied, its) ==
    /\ r \notin DOMAIN requests
    /\ LET generated == supplied = NoNumber
           number == IF generated THEN generate_invoice_number(today) ELSE supplied
           id == nextInvoiceId
           totals == InvoiceTotals(its, 0, 0, 0)
           row == [invoice_number |-> number,
                   subtotal |-> Numeric2(totals.subtotal),
                   tax_amount |-> Numeric2(totals.tax_amount),
                   total_amount |-> Numeric2(totals.total_amount),
                   status |-> "draft",
                   created |-> today]
       IN IF generated /\ GenerateFails(today)
          THEN /\ last' = [NoLast EXCEPT !.op = "create_invoice",
                                         !.result = "ArgumentError", !.generated = TRUE]
               /\ requests' = [q \in DOMAIN requests \cup {r} |->
                                  IF q = r THEN NewRequest("create_invoice", "failed", 0)
                                  ELSE requests[q]]
               /\ UNCHANGED <<invoices, nextInvoiceId>>
          ELSE IF number \in NumbersInUse
          THEN /\ last' = [NoLast EXCEPT !.op = "create_invoice",
                                         !.result = "IntegrityError", !.number = number,
                                         !.generated = generated]
               /\ requests' = [q \in DOMAIN requests \cup {r} |->
                                  IF q = r THEN NewRequest("create_invoice", "failed", 0)
                                  ELSE requests[q]]
               /\ UNCHANGED <<invoices, nextInvoiceId>>
          ELSE /\ invoices' = [i \in DOMAIN invoices \cup {id} |->
                                  IF i = id THEN row ELSE invoices[i]]
               /\ nextInvoiceId' = nextInvoiceId + 1
               /\ requests' = [q \in DOMAIN requests \cup {r} |->
                                  IF q = r
                                  THEN [NewRequest("create_invoice", "items", id)
                                           EXCEPT !.items = its]
                                  ELSE requests[q]]
               /\ UNCHANGED last
    /\ UNCHANGED <<today, service, items, payments, nextItemId, nextPaymentId,
                   clientVars, authVars>>

\* lines 68-75: the item rows and the second commit, which the store refuses
\* as a whole when one row does not fit its columns
create_invoice_commit_items(r) ==
    /\ r \in DOMAIN requests
    /\ requests[r].op = "create_invoice"
    /\ requests[r].pc = "items"
    /\ LET its == requests[r].items
           id == requests[r].id
       IN IF \E k \in 1..Len(its) : its[k].tax_rate > MaxTaxRate
          THEN /\ last' = [NoLast EXCEPT !.op = "create_invoice", !.id = id,
                                         !.result = "DataError",
                                         !.number = invoices[id].invoice_number]
               /\ requests' = [requests EXCEPT ![r].pc = "failed"]
               /\ UNCHANGED <<items, nextItemId>>
          ELSE /\ items' = items \cup
                     {[id |-> nextItemId + k - 1, invoice_id |-> id,
                       total_price |-> its[k].total_price,
                       tax_rate |-> its[k].tax_rate] : k \in 1..Len(its)}
               /\ nextItemId' = nextItemId + Len(its)
               /\ last' = [NoLast EXCEPT !.op = "create_invoice", !.id = id,
                                         !.result = "ok",
                                         !.number = invoices[id].invoice_number]
               /\ requests' = [requests EXCEPT ![r].pc = "done"]
    /\ UNCHANGED <<today, service, invoices, payments, nextInvoiceId, nextPaymentId,
                   clientVars, authVars>>

\* ------------------------- create_invoice, the number and then the commit
\* lines 46-48: the number of the request, generated from the count of the
\* month as this request reads it when none is supplied
create_invoice_generate(r, supplied) ==
    /\ r \notin DOMAIN requests
    /\ LET generated == supplied = NoNumber
       IN IF generated /\ GenerateFails(today)
          THEN /\ last' = [NoLast EXCEPT !.op = "create_invoice",
                                         !.result = "ArgumentError", !.generated = TRUE]
               /\ requests' = [q \in DOMAIN requests \cup {r} |->
                                  IF q = r THEN NewRequest("create_invoice", "failed", 0)
                                  ELSE requests[q]]
          ELSE /\ requests' = [q \in DOMAIN requests \cup {r} |->
                                  IF q = r
                                  THEN [NewRequest("create_invoice", "commit", 0)
                                           EXCEPT !.number = IF generated
                                                             THEN generate_invoice_number(today)
                                                             ELSE supplied,
                                                  !.generated = generated,
                                                  !.count = MonthCount(today)]
                                  ELSE requests[q]]
               /\ UNCHANGED last
    /\ UNCHANGED <<today, service, ledgerVars, clientVars, authVars>>

\* lines 50-66 for a request without items: the invoice row and its commit
create_invoice_commit_number(r) ==
    /\ r \in DOMAIN requests
    /\ requests[r].op = "create_invoice"
    /\ requests[r].pc = "commit"
    /\ LET number == requests[r].number
           id == nextInvoiceId
           row == [invoice_number |-> number,
                   subtotal |-> 0, tax_amount |-> 0, total_amount |-> 0,
                   status |-> "draft",
                   created |-> today]
       IN IF invoice_number_taken(number, id)
          THEN /\ last' = [NoLast EXCEPT !.op = "create_invoice",
                                         !.result = "IntegrityError", !.number = number,
                                         !.generated = requests[r].generated]
               /\ requests' = [requests EXCEPT ![r].pc = "failed"]
               /\ UNCHANGED <<invoices, nextInvoiceId>>
          ELSE /\ invoices' = [i \in DOMAIN invoices \cup {id} |->
                                  IF i = id THEN row ELSE invoices[i]]
               /\ nextInvoiceId' = nextInvoiceId + 1
               /\ requests' = [requests EXCEPT ![r].pc = "items", ![r].id = id]
               /\ last' = [NoLast EXCEPT !.op = "create_invoice", !.id = id,
                                         !.result = "committed", !.number = number,
                                         !.generated = requests[r].generated]
    /\ UNCHANGED <<today, service, items, payments, nextItemId, nextPaymentId,
                   clientVars, authVars>>

\* GET /financial/invoices/{invoice_id}, from another client
api_get_invoice(id) ==
    /\ last' = [NoLast EXCEPT !.op = "get_invoice", !.id = id,
                   !.result = IF get_invoice(id) THEN "ok" ELSE "not_found",
                   !.seen = {it.id : it \in ItemsOf(id)}]
    /\ UNCHANGED <<today, requests, service, ledgerVars, clientVars, authVars>>

\* ------------------------------------------------------------ update_invoice
update_invoice(id, number, sub, tax, total, status) ==
    /\ IF ~get_invoice(id)
       THEN /\ last' = [NoLast EXCEPT !.op = "update_invoice", !.id = id,
                                      !.result = "not_found"]
            /\ UNCHANGED ledgerVars
       ELSE LET old == invoices[id]
                row == [old EXCEPT
                          !.invoice_number = IF number = UnsetNumber THEN @ ELSE number,
                          !.subtotal = IF sub = Unset THEN @ ELSE sub,
                          !.tax_amount = IF tax = Unset THEN @ ELSE tax,
                          !.total_amount = IF total = Unset THEN @ ELSE total,
                          !.status = IF status = "unset" THEN @ ELSE status]
            IN IF \E j \in DOMAIN invoices :
                     j # id /\ invoices[j].invoice_number = row.invoice_number
               THEN \* unique constraint: the commit fails
                    /\ last' = [NoLast EXCEPT !.op = "update_invoice", !.id = id,
                                              !.result = "IntegrityError"]
                    /\ UNCHANGED ledgerVars
               ELSE /\ invoices' = [invoices EXCEPT ![id] = row]
                    /\ last' = [NoLast EXCEPT !.op = "update_invoice", !.id = id,
                                              !.result = "ok"]
                    /\ UNCHANGED <<items, payments, nextInvoiceId, nextItemId,
                                   nextPaymentId>>
    /\ UNCHANGED <<today, requests, service, clientVars, authVars>>

\* ------------------------------------------------------------ delete_invoice
delete_invoice(id) ==
    /\ IF ~get_invoice(id)
       THEN \* returns False, the endpoint answers 404
            /\ last' = [NoLast EXCEPT !.op = "delete_invoice", !.id = id,
                                      !.result = "not_found"]
            /\ UNCHANGED ledgerVars
       ELSE IF PaymentsOf(id) # {}
       THEN \* Invoice.payments has no delete cascade: the flush blanks
            \* payments.invoice_id, which is NOT NULL and a foreign key;
            \* the commit fails and the item deletion is rolled back with it
            /\ last' = [NoLast EXCEPT !.op = "delete_invoice", !.id = id,
                                      !.result = "IntegrityError"]
            /\ UNCHANGED ledgerVars
       ELSE /\ items' = items \ ItemsOf(id)
            /\ invoices' = [i \in DOMAIN invoices \ {id} |-> invoices[i]]
            /\ last' = [NoLast EXCEPT !.op = "delete_invoice", !.id = id,
                                      !.result = "ok"]
            /\ UNCHANGED <<payments, nextInvoiceId, nextItemId, nextPaymentId>>
    /\ UNCHANGED <<today, requests, service, clientVars, authVars>>

\* ------------------------------------------- _update_invoice_payment_status
RECURSIVE SumAmounts(_)
SumAmounts(ps) ==
    IF ps = {} THEN 0
    ELSE LET p == CHOOSE q \in ps : TRUE IN p.amount + SumAmounts(ps \ {p})

\* total_paid: the completed payments of the invoice, read from the table ps
TotalPaid(ps, id) ==
    SumAmounts({p \in ps : p.invoice_id = id /\ p.status = "completed"})

\* a recomputation that tells an invoice it has already marked paid from a
\* newly paid one, and moves the former on to "sent"
ComputedStatusOnce(ps, id, total_amount) ==
    IF TotalPaid(ps, id) >= total_amount
    THEN (IF invoices[id].status = "paid" THEN "sent" ELSE "paid")
    ELSE IF TotalPaid(ps, id) > 0 THEN "partially_paid"
    ELSE "unpaid"

\* the status the recomputation assigns (lines 213-221)
ComputedStatus(ps, id, total_amount) ==
    IF TotalPaid(ps, id) >= total_amount THEN "paid"
    ELSE IF TotalPaid(ps, id) > 0 THEN "partially_paid"
    ELSE "unpaid"

\* the commit of line 223 succeeds only for a member of InvoiceStatus
StatusCommits(status) == status \in InvoiceStatus

\* the invoices table after _update_invoice_payment_status(id) on payments ps
update_invoice_payment_status(ps, id) ==
    IF ~get_invoice(id) THEN invoices
    ELSE LET st == ComputedStatus(ps, id, invoices[id].total_amount)
         IN IF StatusCommits(st) THEN [invoices EXCEPT ![id].status = st]
            ELSE invoices

RecomputeResult(ps, id) ==
    IF ~get_invoice(id) THEN "ok"
    ELSE IF StatusCommits(ComputedStatus(ps, id, invoices[id].total_amount))
    THEN "ok" ELSE "DataError"

\* ------------------------------------------------------------ create_payment
create_payment(invoice_id, amount, status) ==
    /\ IF ~get_invoice(invoice_id)
       THEN \* foreign key payments.invoice_id -> invoices.id: the insert fails
            /\ last' = [NoLast EXCEPT !.op = "create_payment", !.id = invoice_id,
                                      !.result = "IntegrityError"]
            /\ UNCHANGED ledgerVars
       ELSE LET p == [id |-> nextPaymentId, invoice_id |-> invoice_id,
                      amount |-> amount,
                      status |-> IF status = "unset" THEN "pending" ELSE status]
                ps == payments \cup {p}
            IN /\ payments' = ps
               /\ nextPaymentId' = nextPaymentId + 1
               /\ invoices' = update_invoice_payment_status(ps, invoice_id)
               /\ last' = [NoLast EXCEPT !.op = "create_payment", !.id = invoice_id,
                                         !.result = RecomputeResult(ps, invoice_id)]
               /\ UNCHANGED <<items, nextInvoiceId, nextItemId>>
    /\ UNCHANGED <<today, requests, service, clientVars, authVars>>

\* --------------------------------------- create_payment, statement by statement
NewEntry(r, rec) ==
    [q \in DOMAIN requests \cup {r} |-> IF q = r THEN rec ELSE requests[q]]

\* lines 119-122: the payment row and its commit
create_payment_insert(r, invoice_id, amount, status) ==
    /\ r \notin DOMAIN requests
    /\ IF ~get_invoice(invoice_id)
       THEN /\ last' = [NoLast EXCEPT !.op = "create_payment", !.id = invoice_id,
                                      !.result = "IntegrityError"]
            /\ requests' = NewEntry(r, NewRequest("create_payment", "failed", invoice_id))
            /\ UNCHANGED <<payments, nextPaymentId>>
       ELSE /\ payments' = payments \cup
                   {[id |-> nextPaymentId, invoice_id |-> invoice_id, amount |-> amount,
                     status |-> IF status = "unset" THEN "pending" ELSE status]}
            /\ nextPaymentId' = nextPaymentId + 1
            /\ requests' = NewEntry(r, [NewRequest("create_payment", "read", invoice_id)
                                           EXCEPT !.payment = nextPaymentId])
            /\ UNCHANGED last
    /\ UNCHANGED <<today, service, invoices, items, nextInvoiceId, nextItemId,
                   clientVars, authVars>>

\* lines 209-221: the invoice and its payments are read, the status is computed
create_payment_read(r) ==
    /\ r \in DOMAIN requests
    /\ requests[r].op = "create_payment"
    /\ requests[r].pc = "read"
    /\ LET id == requests[r].id
       IN requests' = [requests EXCEPT
                          ![r].pc = "write",
                          ![r].seen = {p.id : p \in PaymentsOf(id)},
                          ![r].status = ComputedStatus(payments, id,
                                                       invoices[id].total_amount)]
    /\ UNCHANGED <<today, service, ledgerVars, clientVars, authVars, last>>

\* line 223: the status is written and committed
create_payment_write(r) ==
    /\ r \in DOMAIN requests
    /\ requests[r].op = "create_payment"
    /\ requests[r].pc = "write"
    /\ LET id == requests[r].id
           st == requests[r].status
       IN /\ invoices' = IF StatusCommits(st) THEN [invoices EXCEPT ![id].status = st]
                         ELSE invoices
          /\ last' = [NoLast EXCEPT !.op = "create_payment", !.id = id,
                         !.result = IF StatusCommits(st) THEN "ok" ELSE "DataError",
                         !.seen = requests[r].seen]
    /\ requests' = [requests EXCEPT ![r].pc = "done"]
    /\ UNCHANGED <<today, service, items, payments, nextInvoiceId, nextItemId,
                   nextPaymentId, clientVars, authVars>>

\* _update_invoice_payment_status called on its own, on the committed payments;
\* last.name tells a run that directly follows a run on the same invoice
recompute_status(id) ==
    /\ invoices' = update_invoice_payment_status(payments, id)
    /\ last' = [NoLast EXCEPT !.op = "recompute_status", !.id = id,
                              !.result = RecomputeResult(payments, id),
                              !.name = IF last.op = "recompute_status" /\ last.id = id
                                       THEN "again" ELSE "first"]
    /\ UNCHANGED <<today, requests, service, items, payments, nextInvoiceId, nextItemId, nextPaymentId,
                   clientVars, authVars>>

\* -------------------------------------------------------------- client_service
get_client(client_id) == client_id \in DOMAIN clients

\* the truth value Python gives client_data.get("gstin")
Truthy(gstin) == gstin \notin {"null", "", "unset"}

\* create_client without its existence check
create_client_unchecked(gstin) == FALSE

\* the existence check of create_client (lines 42-47)
create_client_conflict(gstin) ==
    /\ Truthy(gstin)
    /\ \E c \in DOMAIN clients : clients[c].gstin = gstin

create_client(gstin) ==
    /\ IF create_client_conflict(gstin)
       THEN /\ last' = [NoLast EXCEPT !.op = "create_client", !.result = "ValueError",
                                      !.name = gstin]
            /\ UNCHANGED clientVars
       ELSE /\ clients' = [c \in DOMAIN clients \cup {nextClientId} |->
                              IF c = nextClientId THEN [gstin |-> gstin] ELSE clients[c]]
            /\ nextClientId' = nextClientId + 1
            /\ last' = [NoLast EXCEPT !.op = "create_client", !.id = nextClientId,
                                      !.result = "ok", !.name = gstin]
    /\ UNCHANGED <<today, requests, service, ledgerVars, authVars>>

\* the uniqueness check of update_client (lines 62-70)
update_client_conflict(client_id, gstin) ==
    /\ Truthy(gstin)
    /\ gstin # clients[client_id].gstin
    /\ \E c \in DOMAIN clients : clients[c].gstin = gstin /\ c # client_id

update_client(client_id, gstin) ==
    /\ IF ~get_client(client_id)
       THEN /\ last' = [NoLast EXCEPT !.op = "update_client", !.id = client_id,
                                      !.result = "not_found", !.name = gstin]
            /\ UNCHANGED clientVars
       ELSE IF update_client_conflict(client_id, gstin)
       THEN /\ last' = [NoLast EXCEPT !.op = "update_client", !.id = client_id,
                                      !.result = "ValueError", !.name = gstin]
            /\ UNCHANGED clientVars
       ELSE /\ clients' = [clients EXCEPT ![client_id].gstin =
                              IF gstin = "unset" THEN @ ELSE gstin]
            /\ last' = [NoLast EXCEPT !.op = "update_client", !.id = client_id,
                                      !.result = "ok", !.name = gstin]
            /\ UNCHANGED nextClientId
    /\ UNCHANGED <<today, requests, service, ledgerVars, authVars>>

delete_client(client_id) ==
    /\ IF ~get_client(client_id)
       THEN /\ last' = [NoLast EXCEPT !.op = "delete_client", !.id = client_id,
                                      !.result = "not_found"]
            /\ UNCHANGED clientVars
       ELSE /\ clients' = [c \in DOMAIN clients \ {client_id} |-> clients[c]]
            /\ last' = [NoLast EXCEPT !.op = "delete_client", !.id = client_id,
                                      !.result = "ok"]
            /\ UNCHANGED nextClientId
    /\ UNCHANGED <<today, requests, service, ledgerVars, authVars>>

\* ------------------------------- client_service, the check and then the commit
\* create_client, lines 41-47: the lookup of the GSTIN
create_client_check(r, gstin) ==
    /\ r \notin DOMAIN requests
    /\ IF create_client_conflict(gstin)
       THEN /\ last' = [NoLast EXCEPT !.op = "create_client", !.result = "ValueError",
                                      !.name = gstin]
            /\ requests' = NewEntry(r, NewRequest("create_client", "failed", 0))
       ELSE /\ requests' = NewEntry(r, [NewRequest("create_client", "commit", 0)
                                          EXCEPT !.gstin = gstin])
            /\ UNCHANGED last
    /\ UNCHANGED <<today, service, ledgerVars, clientVars, authVars>>

\* create_client, lines 49-53: the insert and its commit; clients.gstin
\* carries no unique index, the store takes the row as it is
create_client_commit(r) ==
    /\ r \in DOMAIN requests
    /\ requests[r].op = "create_client"
    /\ requests[r].pc = "commit"
    /\ clients' = [c \in DOMAIN clients \cup {nextClientId} |->
                      IF c = nextClientId THEN [gstin |-> requests[r].gstin]
                      ELSE clients[c]]
    /\ nextClientId' = nextClientId + 1
    /\ requests' = [requests EXCEPT ![r].pc = "done", ![r].id = nextClientId]
    /\ last' = [NoLast EXCEPT !.op = "create_client", !.id = nextClientId,
                              !.result = "ok", !.name = requests[r].gstin]
    /\ UNCHANGED <<today, service, ledgerVars, authVars>>

\* update_client, lines 57-70: the client and the lookup of the GSTIN
update_client_check(r, client_id, gstin) ==
    /\ r \notin DOMAIN requests
    /\ IF ~get_client(client_id)
       THEN /\ last' = [NoLast EXCEPT !.op = "update_client", !.id = client_id,
                                      !.result = "not_found", !.name = gstin]
            /\ requests' = NewEntry(r, NewRequest("update_client", "failed", client_id))
       ELSE IF update_client_conflict(client_id, gstin)
       THEN /\ last' = [NoLast EXCEPT !.op = "update_client", !.id = client_id,
                                      !.result = "ValueError", !.name = gstin]
            /\ requests' = NewEntry(r, NewRequest("update_client", "failed", client_id))
       ELSE /\ requests' = NewEntry(r, [NewRequest("update_client", "commit", client_id)
                                          EXCEPT !.gstin = gstin])
            /\ UNCHANGED last
    /\ UNCHANGED <<today, service, ledgerVars, clientVars, authVars>>

\* update_client, lines 72-80: the fields are set and committed
update_client_commit(r) ==
    /\ r \in DOMAIN requests
    /\ requests[r].op = "update_client"
    /\ requests[r].pc = "commit"
    /\ clients' = [clients EXCEPT ![requests[r].id].gstin = requests[r].gstin]
    /\ requests' = [requests EXCEPT ![r].pc = "done"]
    /\ last' = [NoLast EXCEPT !.op = "update_client", !.id = requests[r].id,
                              !.result = "ok", !.name = requests[r].gstin]
    /\ UNCHANGED <<today, service, ledgerVars, nextClientId, authVars>>

\* ---------------------------------------------------------------- user_service
None == 0

\* get_user_by_username: the id of the row, or None
get_user_by_username(username) ==
    IF \E u \in DOMAIN users : users[u].username = username
    THEN CHOOSE u \in DOMAIN users : users[u].username = username
    ELSE None

get_user_by_email(email) ==
    IF \E u \in DOMAIN users : users[u].email = email
    THEN CHOOSE u \in DOMAIN users : users[u].email = email
    ELSE None

\* _log_audit: the audit_logs table with one more committed row
log_audit(logs, user_id, action) ==
    logs \cup {[id |-> Cardinality(logs) + 1, user_id |-> user_id, action |-> action]}

\* authenticate_user stamping last_login before it verifies the password
authenticate_user_stamp_first(username, password) ==
    LET user == get_user_by_username(username)
        stamped == [users EXCEPT ![user].last_login = now]
    IN IF user = None THEN [user |-> None, users |-> users]
       ELSE IF ~verify_password(password, users[user].hashed_password)
       THEN [user |-> None, users |-> stamped]
       ELSE [user |-> user, users |-> stamped]

\* authenticate_user: the user found (or None) and the users table it leaves
authenticate_user(username, password) ==
    LET user == get_user_by_username(username)
    IN IF user = None THEN [user |-> None, users |-> users]
       ELSE IF ~verify_password(password, users[user].hashed_password)
       THEN [user |-> None, users |-> users]
       ELSE [user |-> user, users |-> [users EXCEPT ![user].last_login = now]]

\* the tokens in circulation
Tokens == {i.token : i \in issued}

\* login and login_json
login(username, password) ==
    /\ LET auth == authenticate_user(username, password)
       IN IF auth.user = None
          THEN /\ last' = [NoLast EXCEPT !.op = "login", !.result = "unauthorized",
                                         !.name = username, !.password = password,
                                         !.at = now]
               /\ users' = auth.users
               /\ UNCHANGED issued
          ELSE LET access_token ==
                       create_access_token(users[auth.user].username, now,
                                           ACCESS_TOKEN_EXPIRE_MINUTES)
                   grant == [token |-> access_token, user |-> auth.user]
               IN /\ grant \in issued \/ Cardinality(issued) < MaxTokens
                  /\ users' = auth.users
                  /\ issued' = issued \cup {grant}
                  /\ last' = [NoLast EXCEPT !.op = "login", !.id = auth.user,
                                            !.result = "ok", !.name = username,
                                            !.password = password, !.at = now,
                                            !.token = access_token]
    /\ UNCHANGED <<today, requests, service, ledgerVars, clientVars, nextUserId, audit_logs,
                   now>>

\* get_current_user resolving the sub claim against the email column
get_current_user_by_email(token) ==
    IF ~verify_token(token, now) THEN None
    ELSE IF token.sub = "" THEN None
    ELSE get_user_by_email(token.sub)

\* get_current_user reading the claims without verifying the token
get_current_user_unverified(token) ==
    IF token.sub = "" THEN None
    ELSE get_user_by_username(token.sub)

\* get_current_user: the id of the user the token resolves to, or None (401)
get_current_user(token) ==
    IF ~verify_token(token, now) THEN None
    ELSE IF token.sub = "" THEN None
    ELSE get_user_by_username(token.sub)

\* GET /auth/me
read_users_me(token) ==
    /\ LET current_user == get_current_user(token)
       IN last' = [NoLast EXCEPT !.op = "authenticate", !.id = current_user,
                      !.result = IF current_user = None THEN "unauthorized" ELSE "ok",
                      !.name = IF current_user = None THEN ""
                               ELSE users[current_user].username,
                      !.token = token, !.at = now]
    /\ UNCHANGED <<today, requests, service, ledgerVars, clientVars, authVars>>

\* the clock advances
Tick ==
    /\ now + TickMinutes <= MaxClock
    /\ now' = now + TickMinutes
    /\ UNCHANGED <<today, requests, service, ledgerVars, clientVars, users, nextUserId,
                   audit_logs, issued, last>>

\* UserService.create_user: its outcome and the tables it leaves
CreateUser(username, email, password, role) ==
    IF get_user_by_username(username) # None \/ get_user_by_email(email) # None
    THEN [result |-> "ValueError", id |-> None, users |-> users,
          nextUserId |-> nextUserId, audit_logs |-> audit_logs]
    ELSE LET row == [username |-> username, email |-> email,
                     hashed_password |-> get_password_hash(password),
                     role |-> IF role = "unset" THEN "client" ELSE role,
                     status |-> "pending", last_login |-> Never]
         IN [result |-> "ok", id |-> nextUserId,
             users |-> [u \in DOMAIN users \cup {nextUserId} |->
                           IF u = nextUserId THEN row ELSE users[u]],
             nextUserId |-> nextUserId + 1,
             audit_logs |-> log_audit(audit_logs, nextUserId, "CREATE_USER")]

create_user(username, email, password, role) ==
    /\ LET out == CreateUser(username, email, password, role)
       IN /\ users' = out.users
          /\ nextUserId' = out.nextUserId
          /\ audit_logs' = out.audit_logs
          /\ last' = [NoLast EXCEPT !.op = "create_user", !.id = out.id,
                                    !.result = out.result, !.name = username]
    /\ UNCHANGED <<today, requests, service, ledgerVars, clientVars, now, issued>>

\* POST /auth/register: the body goes to create_user as it came; an exception
\* of the service is not handled and leaves the handler as a 500 response
register(username, email, password, role) ==
    /\ LET out == CreateUser(username, email, password, role)
       IN /\ users' = out.users
          /\ nextUserId' = out.nextUserId
          /\ audit_logs' = out.audit_logs
          /\ last' = [NoLast EXCEPT !.op = "register", !.id = out.id,
                         !.result = IF out.result = "ok" THEN "200" ELSE "500",
                         !.name = username, !.email = email,
                         !.password = password]
    /\ UNCHANGED <<today, requests, service, ledgerVars, clientVars, now, issued>>

\* update_user refusing a status change outside pending -> active,
\* active <-> suspended and anything -> inactive
update_user_lifecycle(user_id, username, email, status) ==
    /\ IF user_id \notin DOMAIN users
       THEN /\ last' = [NoLast EXCEPT !.op = "update_user", !.id = user_id,
                                      !.result = "not_found"]
            /\ UNCHANGED <<users, audit_logs>>
       ELSE LET old == users[user_id].status
            IN IF /\ status \notin {"unset", old, "inactive"}
                  /\ <<old, status>> \notin {<<"pending", "active">>,
                                             <<"active", "suspended">>,
                                             <<"suspended", "active">>}
               THEN /\ last' = [NoLast EXCEPT !.op = "update_user", !.id = user_id,
                                              !.result = "ValueError"]
                    /\ UNCHANGED <<users, audit_logs>>
               ELSE /\ users' = [users EXCEPT ![user_id].status =
                                    IF status = "unset" THEN @ ELSE status]
                    /\ audit_logs' = log_audit(audit_logs, user_id, "UPDATE_USER")
                    /\ last' = [NoLast EXCEPT !.op = "update_user", !.id = user_id,
                                              !.result = "ok",
                                              !.name = users[user_id].username]
    /\ UNCHANGED <<today, requests, service, ledgerVars, clientVars, nextUserId, now, issued>>

update_user(user_id, username, email, status) ==
    /\ IF user_id \notin DOMAIN users
       THEN /\ last' = [NoLast EXCEPT !.op = "update_user", !.id = user_id,
                                      !.result = "not_found"]
            /\ UNCHANGED <<users, audit_logs>>
       ELSE LET row == [users[user_id] EXCEPT
                           !.username = IF username = "unset" THEN @ ELSE username,
                           !.email = IF email = "unset" THEN @ ELSE email,
                           !.status = IF status = "unset" THEN @ ELSE status]
            IN IF \E u \in DOMAIN users \ {user_id} :
                     users[u].username = row.username \/ users[u].email = row.email
               THEN \* unique index on username / email: the commit fails
                    /\ last' = [NoLast EXCEPT !.op = "update_user", !.id = user_id,
                                              !.result = "IntegrityError"]
                    /\ UNCHANGED <<users, audit_logs>>
               ELSE /\ users' = [users EXCEPT ![user_id] = row]
                    /\ audit_logs' = log_audit(audit_logs, user_id, "UPDATE_USER")
                    /\ last' = [NoLast EXCEPT !.op = "update_user", !.id = user_id,
                                              !.result = "ok", !.name = row.username]
    /\ UNCHANGED <<today, requests, service, ledgerVars, clientVars, nextUserId, now, issued>>

delete_user(user_id) ==
    /\ IF user_id \notin DOMAIN users
       THEN /\ last' = [NoLast EXCEPT !.op = "delete_user", !.id = user_id,
                                      !.result = "not_found"]
            /\ UNCHANGED <<users, audit_logs>>
       ELSE LET logs == log_audit(audit_logs, user_id, "DELETE_USER")
            IN /\ audit_logs' = logs
               /\ IF \E a \in logs : a.user_id = user_id
                  THEN \* User.audit_logs has no delete cascade: the flush blanks
                       \* audit_logs.user_id, which is NOT NULL; the commit fails
                       /\ last' = [NoLast EXCEPT !.op = "delete_user", !.id = user_id,
                                                 !.result = "IntegrityError"]
                       /\ UNCHANGED users
                  ELSE /\ users' = [u \in DOMAIN users \ {user_id} |-> users[u]]
                       /\ last' = [NoLast EXCEPT !.op = "delete_user", !.id = user_id,
                                                 !.result = "ok"]
    /\ UNCHANGED <<today, requests, service, ledgerVars, clientVars, nextUserId, now, issued>>

\* ------------------------------------------- api_v1/endpoints/financial.py
\* the handlers of the financial router depend on get_db alone: whatever
\* bearer token the request carries is never read
api_create_invoice(token, supplied, its, supSub, supTax, supTotal) ==
    create_invoice(supplied, its, supSub, supTax, supTotal)

api_update_invoice(token, id, number, sub, tax, total, status) ==
    update_invoice(id, number, sub, tax, total, status)

api_delete_invoice(token, id) == delete_invoice(id)

api_create_payment(token, invoice_id, amount) ==
    create_payment(invoice_id, amount, "unset")

\* what a request may carry: no token, an issued one, a forged one
PresentedTokens == {NoToken} \cup Tokens \cup ForgedTokens

\* ------------------------------------------------------------------ main.py
\* the default users startup_event has to add, and the table its one commit
\* leaves: a default user whose email another row holds fails the commit,
\* and the rollback drops both
MissingDefaults ==
    {k \in DOMAIN SeededUsers : get_user_by_username(SeededUsers[k].username) = None}

SeedCommits ==
    \A k \in MissingDefaults : get_user_by_email(SeededUsers[k].email) = None

RECURSIVE AddUsers(_, _, _)
AddUsers(table, nextId, ks) ==
    IF ks = {} THEN table
    ELSE LET k == CHOOSE x \in ks : \A y \in ks : x <= y
         IN AddUsers([u \in DOMAIN table \cup {nextId} |->
                         IF u = nextId THEN SeededUsers[k] ELSE table[u]],
                     nextId + 1, ks \ {k})

\* lines 22-29: the tables are created while the module is imported; a
\* failure is logged and the import goes on
create_all ==
    /\ service.phase = "import"
    /\ service' = [service EXCEPT !.phase = "startup"]
    /\ last' = [NoLast EXCEPT !.op = "create_all",
                   !.result = IF service.store = "up" THEN "ok" ELSE "logged"]
    /\ UNCHANGED <<today, requests, ledgerVars, clientVars, authVars>>

\* startup_event with no handler around the connection test
startup_event_unguarded ==
    /\ service.phase = "startup"
    /\ IF service.store = "down"
       THEN /\ service' = [service EXCEPT !.phase = "aborted"]
            /\ last' = [NoLast EXCEPT !.op = "startup_event", !.result = "raised"]
            /\ UNCHANGED <<users, nextUserId>>
       ELSE /\ service' = [service EXCEPT !.phase = "serving"]
            /\ IF SeedCommits
               THEN /\ users' = AddUsers(users, nextUserId, MissingDefaults)
                    /\ nextUserId' = nextUserId + Cardinality(MissingDefaults)
                    /\ last' = [NoLast EXCEPT !.op = "startup_event", !.result = "ok"]
               ELSE /\ last' = [NoLast EXCEPT !.op = "startup_event",
                                              !.result = "rolled_back"]
                    /\ UNCHANGED <<users, nextUserId>>
    /\ UNCHANGED <<today, requests, ledgerVars, clientVars, audit_logs, now, issued>>

\* lines 39-102: connection test, tables, default users; every failure is
\* caught and logged, and the application starts serving
startup_event ==
    /\ service.phase = "startup"
    /\ service' = [service EXCEPT !.phase = "serving"]
    /\ IF service.store = "down"
       THEN /\ last' = [NoLast EXCEPT !.op = "startup_event", !.result = "logged"]
            /\ UNCHANGED <<users, nextUserId>>
       ELSE IF SeedCommits
       THEN /\ users' = AddUsers(users, nextUserId, MissingDefaults)
            /\ nextUserId' = nextUserId + Cardinality(MissingDefaults)
            /\ last' = [NoLast EXCEPT !.op = "startup_event", !.result = "ok"]
       ELSE /\ last' = [NoLast EXCEPT !.op = "startup_event", !.result = "rolled_back"]
            /\ UNCHANGED <<users, nextUserId>>
    /\ UNCHANGED <<today, requests, ledgerVars, clientVars, audit_logs, now, issued>>

\* GET / and GET /ping: no store access
root ==
    /\ service.phase = "serving"
    /\ last' = [NoLast EXCEPT !.op = "root", !.result = "200"]
    /\ UNCHANGED <<today, requests, service, ledgerVars, clientVars, authVars>>

ping ==
    /\ service.phase = "serving"
    /\ last' = [NoLast EXCEPT !.op = "ping", !.result = "200"]
    /\ UNCHANGED <<today, requests, service, ledgerVars, clientVars, authVars>>

\* GET /health: 200 in either case, the store's state in the body
health_check ==
    /\ service.phase = "serving"
    /\ last' = [NoLast EXCEPT !.op = "health_check", !.result = "200",
                   !.name = IF service.store = "up" THEN "connected"
                            ELSE "disconnected"]
    /\ UNCHANGED <<today, requests, service, ledgerVars, clientVars, authVars>>

\* the store goes away or comes back
StoreChanges ==
    /\ service' = [service EXCEPT !.store = IF @ = "up" THEN "down" ELSE "up"]
    /\ UNCHANGED <<today, requests, ledgerVars, clientVars, authVars, last>>

\* the users table a start may find: empty, already seeded, or with the
\* email of a default user held by somebody else
BootUsers ==
    {<<>>, SeededUsers,
     <<[username |-> "carol", email |-> "demo@compliance.com",
        hashed_password |-> get_password_hash("demo123"),
        role |-> "client", status |-> "active", last_login |-> Never]>>}

InvoiceIds == 1..(MaxInvoices + 1)
NumberedIds == 1..(MaxNumbered + 1)
ClientIds == 1..(MaxClients + 1)
UserIds == 1..(MaxUsers + 1)

\* ------------------------------------------------------------ specifications
\* the ledger: invoices, their payments and the derived status
Next ==
    \/ /\ nextInvoiceId <= MaxInvoices
       /\ \E supplied \in {NoNumber, CustomNumber}, its \in LedgerItemLists,
             a \in SuppliedTotals :
             create_invoice(supplied, its, a, a, a)
    \/ \E id \in InvoiceIds, total \in UpdateAmounts, status \in {"unset", "sent"} :
          update_invoice(id, UnsetNumber, Unset, Unset, total, status)
    \/ \E id \in InvoiceIds : delete_invoice(id)
    \/ /\ nextPaymentId <= MaxPayments
       /\ \E id \in InvoiceIds, amount \in PaymentAmounts, status \in PaymentStatusInputs :
             create_payment(id, amount, status)

Spec == Init /\ [][Next]_vars

\* the status recomputation, run again and again between the ledger requests
NextRecompute ==
    \/ /\ nextInvoiceId <= MaxInvoices
       /\ \E its \in LedgerItemLists : create_invoice(CustomNumber, its, 0, 0, 0)
    \/ \E id \in InvoiceIds, total \in UpdateAmounts, status \in {"unset", "sent"} :
          update_invoice(id, UnsetNumber, Unset, Unset, total, status)
    \/ /\ nextPaymentId <= MaxPayments
       /\ \E id \in InvoiceIds, amount \in PaymentAmounts, status \in PaymentStatusInputs :
             create_payment(id, amount, status)
    \/ \E id \in InvoiceIds : recompute_status(id)

SpecRecompute == Init /\ [][NextRecompute]_vars

\* invoice numbering: generated and caller-supplied numbers, renumbering, deletion
NextNumbering ==
    \/ /\ nextInvoiceId <= MaxNumbered
       /\ \E supplied \in SuppliedNumbers(today) :
             create_invoice(supplied, <<>>, 0, 0, 0)
    \/ \E id \in NumberedIds, number \in SuppliedNumbers(today) \cup {UnsetNumber} :
          update_invoice(id, number, Unset, Unset, Unset, "unset")
    \/ \E id \in NumberedIds : delete_invoice(id)

SpecNumbering == Init /\ [][NextNumbering]_vars

\* invoice totals: every item list, every caller-supplied total
NextTotals ==
    \/ /\ nextInvoiceId <= MaxInvoices
       /\ \E supplied \in {NoNumber, CustomNumber}, its \in ItemLists,
             a \in SuppliedTotals, b \in SuppliedTotals, c \in SuppliedTotals :
             create_invoice(supplied, its, a, b, c)
    \/ \E id \in InvoiceIds : delete_invoice(id)

SpecTotals == Init /\ [][NextTotals]_vars

\* the client registry
NextClients ==
    \/ /\ nextClientId <= MaxClients
       /\ \E gstin \in Gstins : create_client(gstin)
    \/ \E id \in ClientIds, gstin \in Gstins \cup {"unset"} : update_client(id, gstin)
    \/ \E id \in ClientIds : delete_client(id)

SpecClients == Init /\ [][NextClients]_vars

\* the clients under concurrent requests: create_client and update_client in
\* their two steps, served by several workers, after clients created one by one
NextClientRace ==
    \/ /\ nextClientId <= MaxRequests
       /\ requests = <<>>
       /\ \E gstin \in Gstins : create_client(gstin)
    \/ \E r \in RequestIds, gstin \in Gstins : create_client_check(r, gstin)
    \/ \E r \in RequestIds : create_client_commit(r)
    \/ \E r \in RequestIds, id \in ClientIds, gstin \in Gstins :
          update_client_check(r, id, gstin)
    \/ \E r \in RequestIds : update_client_commit(r)

SpecClientRace == Init /\ [][NextClientRace]_vars

\* authentication: the store reachable or not at startup
InitUsers ==
    /\ today = [year |-> 2026, month |-> 11]
    /\ InitLedger
    /\ InitClients
    /\ \E reachable \in BOOLEAN : InitAuth(reachable)
    /\ InitService
    /\ last = NoLast

NextAuth ==
    \/ /\ Cardinality(issued) < MaxTokens
       /\ \E username \in Usernames, password \in Passwords : login(username, password)
    \/ \E token \in Tokens \cup ForgedTokens : read_users_me(token)
    \/ Tick
    \/ /\ nextUserId <= MaxUsers
       /\ Cardinality(audit_logs) < MaxAuditLogs
       /\ \E username \in Usernames, email \in Emails, role \in {"unset", "admin"} :
             create_user(username, email, "demo123", role)
    \/ /\ Cardinality(audit_logs) < MaxAuditLogs
       /\ \E id \in UserIds, username \in {"unset", "demo", "carol"},
             status \in {"unset", "suspended"} :
             update_user(id, username, "unset", status)
    \/ /\ Cardinality(audit_logs) < MaxAuditLogs
       /\ \E id \in UserIds : delete_user(id)

SpecAuth == InitUsers /\ [][NextAuth]_vars

\* the status of the users: every value UserUpdate.status takes
NextStatus ==
    \/ /\ nextUserId <= MaxUsers
       /\ Cardinality(audit_logs) < MaxAuditLogs
       /\ \E username \in Usernames, email \in Emails :
             create_user(username, email, "demo123", "unset")
    \/ /\ Cardinality(audit_logs) < MaxAuditLogs
       /\ \E id \in UserIds, status \in UserStatus \cup {"unset"} :
             update_user(id, "unset", "unset", status)
    \/ /\ Cardinality(audit_logs) < MaxAuditLogs
       /\ \E id \in UserIds : delete_user(id)
    \/ /\ Cardinality(issued) < MaxTokens
       /\ \E username \in Usernames, password \in Passwords : login(username, password)

SpecStatus == InitUsers /\ [][NextStatus]_vars

\* the ledger behind the HTTP API, next to the login that issues tokens
NextApi ==
    \/ /\ Cardinality(issued) < MaxTokens
       /\ \E username \in Usernames, password \in Passwords : login(username, password)
    \/ /\ nextInvoiceId <= MaxInvoices
       /\ \E token \in PresentedTokens, its \in LedgerItemLists :
             api_create_invoice(token, CustomNumber, its, 0, 0, 0)
    \/ \E token \in PresentedTokens, id \in InvoiceIds, total \in UpdateAmounts :
          api_update_invoice(token, id, UnsetNumber, Unset, Unset, total, "unset")
    \/ \E token \in PresentedTokens, id \in InvoiceIds : api_delete_invoice(token, id)
    \/ /\ nextPaymentId <= MaxPayments
       /\ \E token \in PresentedTokens, id \in InvoiceIds, amount \in PaymentAmounts :
             api_create_payment(token, id, amount)

SpecApi == Init /\ [][NextApi]_vars

\* create_invoice requests running side by side, statement by statement
NextAtomic ==
    \/ \E r \in RequestIds, supplied \in {NoNumber, CustomNumber}, its \in StepItemLists :
          create_invoice_commit_invoice(r, supplied, its)
    \/ \E r \in RequestIds : create_invoice_commit_items(r)
    \/ \E id \in InvoiceIds : api_get_invoice(id)

SpecAtomic == Init /\ [][NextAtomic]_vars

\* invoice numbers under concurrent requests: create_invoice in its steps,
\* served by several workers, and update_invoice renumbering in between
NextNumberRace ==
    \/ \E r \in RequestIds, supplied \in SuppliedNumbers(today) :
          create_invoice_generate(r, supplied)
    \/ \E r \in RequestIds : create_invoice_commit_number(r)
    \/ \E r \in RequestIds : create_invoice_commit_items(r)
    \/ \E id \in InvoiceIds, number \in SuppliedNumbers(today) \ {NoNumber} :
          update_invoice(id, number, Unset, Unset, Unset, "unset")

SpecNumberRace == Init /\ [][NextNumberRace]_vars

\* the start of the process, with the store there or not, and what it serves
InitBoot ==
    /\ today = [year |-> 2026, month |-> 11]
    /\ InitLedger
    /\ InitClients
    /\ users \in BootUsers
    /\ nextUserId = Cardinality(DOMAIN users) + 1
    /\ audit_logs = {}
    /\ now = 0
    /\ issued = {}
    /\ requests = <<>>
    /\ service \in [phase : {"import"}, store : {"up", "down"}]
    /\ last = NoLast

NextBoot ==
    \/ create_all
    \/ startup_event
    \/ root
    \/ ping
    \/ health_check
    \/ StoreChanges
    \/ /\ service.phase = "serving"
       /\ service.store = "up"
       /\ Cardinality(issued) < MaxTokens
       /\ \E username \in Usernames, password \in Passwords : login(username, password)

\* the interpreter runs the import and the startup handler to their end
SpecBoot ==
    /\ InitBoot
    /\ [][NextBoot]_vars
    /\ WF_vars(create_all)
    /\ WF_vars(startup_event)

\* create_payment requests of several workers on the same invoices
NextRace ==
    \/ /\ nextInvoiceId <= MaxInvoices
       /\ \E its \in LedgerItemLists : create_invoice(CustomNumber, its, 0, 0, 0)
    \/ \E r \in RequestIds, id \in InvoiceIds, amount \in PaymentAmounts,
          status \in {"unset", "completed"} :
          create_payment_insert(r, id, amount, status)
    \/ \E r \in RequestIds : create_payment_read(r)
    \/ \E r \in RequestIds : create_payment_write(r)

SpecRace == Init /\ [][NextRace]_vars

\* registration: anyone may post to /auth/register, then log in
RegisterEmails == Emails \cup {"dave@example.com"}

NextRegister ==
    \/ /\ nextUserId <= MaxUsers
       /\ \E username \in Usernames, email \in RegisterEmails,
             role \in {"unset", "admin"} :
             register(username, email, "demo123", role)
    \/ /\ Cardinality(issued) < MaxTokens
       /\ \E username \in Usernames, password \in Passwords : login(username, password)

SpecRegister == InitUsers /\ [][NextRegister]_vars

\* ==================================================================== claims
RECURSIVE SumOver(_, _)
\* the sum of Term(row) over a set of rows, Term chosen by kind
SumOver(rows, kind) ==
    IF rows = {} THEN 0
    ELSE LET r == CHOOSE x \in rows : TRUE
             term == IF kind = "price" THEN r.total_price
                     ELSE IF kind = "tax" THEN r.tax_rate * r.total_price
                     ELSE r.amount
         IN term + SumOver(rows \ {r}, kind)

CreatedInvoice == last.op = "create_invoice" /\ last.result = "ok"

\* C1 as stated: the persisted invoice of a create_invoice has subtotal = sum
\* of the items' total_price, tax_amount = sum of tax_rate * total_price / 100
\* exactly, and total_amount = subtotal + tax_amount.
C1_ExactTotals ==
    CreatedInvoice =>
        LET inv == invoices[last.id]
            rows == ItemsOf(last.id)
        IN /\ inv.subtotal = SumOver(rows, "price")
           /\ inv.tax_amount * Scale = SumOver(rows, "tax")
           /\ inv.total_amount = inv.subtotal + inv.tax_amount

\* C1 amended: the persisted invoice of a create_invoice (items with
\* non-negative prices and rates of two decimal places) has subtotal = sum of
\* the items' total_price, tax_amount = the sum of tax_rate * total_price / 100
\* rounded to two decimal places (half a cent rounds up), and total_amount =
\* subtotal + tax_amount exactly, whatever totals the caller supplied.
C1_RoundedTotals ==
    CreatedInvoice =>
        LET inv == invoices[last.id]
            rows == ItemsOf(last.id)
            tax == SumOver(rows, "tax")
        IN /\ inv.subtotal = SumOver(rows, "price")
           /\ 2 * inv.tax_amount * Scale - Scale <= 2 * tax
           /\ 2 * tax < 2 * inv.tax_amount * Scale + Scale
           /\ inv.total_amount = inv.subtotal + inv.tax_amount

\* an invoice was created whose exact tax is not a whole number of cents
C1_Witness ==
    /\ CreatedInvoice
    /\ Cardinality(ItemsOf(last.id)) = MaxItems
    /\ SumOver(ItemsOf(last.id), "tax") % Scale # 0
    /\ invoices[last.id].tax_amount > 0
\* the status the specification derives from the completed payments
DerivedStatus(id) ==
    LET totalPaid == SumOver({p \in payments : p.invoice_id = id /\ p.status = "completed"},
                             "amount")
    IN IF totalPaid >= invoices[id].total_amount THEN "paid"
       ELSE IF totalPaid > 0 THEN "partially_paid"
       ELSE "unpaid"

\* C2 as stated: after create_payment on an existing invoice the invoice status
\* is paid / partially_paid / unpaid as derived from the sum of its completed
\* payments and its total_amount.
C2_StatusDerived ==
    (last.op = "create_payment" /\ get_invoice(last.id)) =>
        invoices[last.id].status = DerivedStatus(last.id)

\* C9: a recomputation of the payment status that directly follows a
\* recomputation on the same invoice leaves the status (and the whole invoice
\* table) as the first one left it.
C9_RecomputeIdempotent ==
    [][(/\ last.op = "recompute_status"
        /\ last'.op = "recompute_status"
        /\ last'.id = last.id) => invoices' = invoices]_vars

\* the recomputation ran twice in a row on an invoice that has a completed
\* payment, and the status it wrote was stored
C9_Witness ==
    /\ last.op = "recompute_status"
    /\ last.name = "again"
    /\ last.result = "ok"
    /\ get_invoice(last.id)
    /\ \E p \in PaymentsOf(last.id) : p.status = "completed"
    /\ invoices[last.id].status = "paid"

\* C10 as stated: create_payment for an invoice id that refers to no invoice
\* fails with NotFound and persists no payment.
C10_MissingInvoiceNotFound ==
    (last.op = "create_payment" /\ ~get_invoice(last.id)) =>
        (last.result = "not_found" /\ PaymentsOf(last.id) = {})

\* C7 as stated: delete_invoice of an unknown id answers NotFound and changes
\* nothing; delete_invoice of an existing invoice removes it and all its items
\* and no item of another invoice.
C7_DeleteRemoves ==
    [][last'.op = "delete_invoice" =>
        IF ~get_invoice(last'.id)
        THEN last'.result = "not_found" /\ invoices' = invoices /\ items' = items
                /\ payments' = payments
        ELSE /\ last'.id \notin DOMAIN invoices'
             /\ items' = items \ ItemsOf(last'.id)]_vars

\* C3: authenticate of a token that login issued to a user, presented no later
\* than its expiry while that user still carries the username of the token,
\* succeeds and resolves to that user.
C3_LoginThenAuthenticate ==
    \A g \in issued :
        (/\ last.op = "authenticate"
         /\ last.token = g.token
         /\ last.at <= g.token.exp
         /\ g.user \in DOMAIN users
         /\ users[g.user].username = g.token.sub)
        => (last.result = "ok" /\ last.id = g.user /\ last.name = g.token.sub)

\* the seeded admin logged in and, half an hour later, was authenticated by the
\* token
C3_Witness ==
    /\ last.op = "authenticate"
    /\ last.result = "ok"
    /\ last.name = "admin"
    /\ last.at > 0
    /\ \E g \in issued : g.token = last.token /\ g.user = last.id

\* the credentials do not match a stored user
BadCredentials(username, password) ==
    \A u \in DOMAIN users :
        users[u].username = username =>
            users[u].hashed_password # get_password_hash(password)

\* C4: a login with an unknown username or a password that does not match the
\* stored hash answers Unauthorized, returns no token, issues none and leaves
\* every user row (last_login included) as it was.
C4_BadCredentialsRejected ==
    [][(/\ last'.op = "login"
        /\ last' # last
        /\ BadCredentials(last'.name, last'.password))
       => (/\ last'.result = "unauthorized"
           /\ last'.token = NoToken
           /\ users' = users
           /\ issued' = issued)]_vars

\* a login of an existing user with a wrong password was rejected
C4_Witness ==
    /\ last.op = "login"
    /\ last.result = "unauthorized"
    /\ get_user_by_username(last.name) # None
    /\ users[get_user_by_username(last.name)].last_login = Never

\* C5: a token presented after its expiry instant is not authenticated,
\* whoever signed it and whether or not its username resolves.
C5_ExpiredRejected ==
    (last.op = "authenticate" /\ last.token.exp < last.at) =>
        last.result = "unauthorized"

\* a token issued by login, validly signed and naming an existing user, was
\* presented after its expiry and refused
C5_Witness ==
    /\ last.op = "authenticate"
    /\ last.token \in Tokens
    /\ last.token.key = SECRET_KEY
    /\ last.token.exp < last.at
    /\ get_user_by_username(last.token.sub) # None
    /\ last.result = "unauthorized"

\* INV-YYYYMM-NNNN
MatchesFormat(number) ==
    /\ number.prefix = "INV"
    /\ Len(number.ym) = 6
    /\ Len(number.seq) = 4

\* C6 as stated: every number create_invoice generates matches INV-YYYYMM-NNNN
\* and differs from the number of every invoice that exists at that moment.
C6_GeneratedUnique ==
    [][(/\ last'.op = "create_invoice"
        /\ last'.generated
        /\ last'.number # NoNumber)
       => (/\ MatchesFormat(last'.number)
           /\ \A i \in DOMAIN invoices : invoices[i].invoice_number # last'.number)]_vars

NonEmpty(gstin) == gstin \notin {"null", "", "unset"}

\* the GSTIN is held by a client other than id
HeldByOther(gstin, id) ==
    /\ NonEmpty(gstin)
    /\ \E c \in DOMAIN clients \ {id} : clients[c].gstin = gstin

RejectsSharedGstin ==
    /\ (last'.op = "create_client" /\ HeldByOther(last'.name, 0))
          => (last'.result = "ValueError" /\ clients' = clients)
    /\ (last'.op = "update_client" /\ get_client(last'.id)
           /\ HeldByOther(last'.name, last'.id))
          => (last'.result = "ValueError" /\ clients' = clients)
    /\ (last'.op = "update_client" /\ get_client(last'.id)
           /\ last'.name = clients[last'.id].gstin)
          => (last'.result = "ok" /\ clients' = clients)

NoSharedGstin ==
    \A c, d \in DOMAIN clients :
        (c # d /\ NonEmpty(clients[c].gstin)) => clients[c].gstin # clients[d].gstin

Taken(username, email) ==
    \E u \in DOMAIN users : users[u].username = username \/ users[u].email = email

\* C11 as stated: a register with a taken username or email is answered with
\* a 409 conflict, stores no user and writes no audit row.
C11_RegisterConflict ==
    [][(last'.op = "register" /\ Taken(last'.name, last'.email))
       => (/\ last'.result = "409"
           /\ users' = users
           /\ audit_logs' = audit_logs)]_vars

\* C17 as stated: a user that register created has role client and status
\* pending (no caller of register is authenticated, so none may override).
C17_RegisterDefaults ==
    (last.op = "register" /\ last.result = "200") =>
        (users[last.id].role = "client" /\ users[last.id].status = "pending")
\* C12 as stated: a login with the right password of a user whose status is
\* not active fails, returns and issues no token and leaves last_login alone.
C12_OnlyActiveLogin ==
    [][(/\ last'.op = "login"
        /\ last' # last
        /\ \E u \in DOMAIN users :
              /\ users[u].username = last'.name
              /\ verify_password(last'.password, users[u].hashed_password)
              /\ users[u].status # "active")
       => (/\ last'.result = "unauthorized"
           /\ last'.token = NoToken
           /\ users' = users
           /\ issued' = issued)]_vars

\* C13 as stated: an authenticate that succeeded presented a token whose
\* username resolves, at that moment, to an existing user with status active.
C13_OnlyActiveAuthenticate ==
    (last.op = "authenticate" /\ last.result = "ok") =>
        /\ verify_token(last.token, last.at)
        /\ last.token.sub # ""
        /\ \E u \in DOMAIN users :
              /\ users[u].username = last.token.sub
              /\ users[u].status = "active"
\* C14 as stated, in the form of what it requires of every step: the invoice,
\* item and payment tables change only in a request that authenticated, so
\* only while some issued token authenticates.
C14_LedgerBehindAuthentication ==
    [][(invoices' # invoices \/ items' # items \/ payments' # payments)
       => \E g \in issued : get_current_user(g.token) # None]_vars
\* C15 as stated: whenever the invoice row of a create_invoice request is in
\* the table, so are all the items that were submitted with it.
C15_AllOrNothing ==
    \A r \in DOMAIN requests :
        (requests[r].op = "create_invoice" /\ requests[r].id \in DOMAIN invoices)
        => Cardinality(ItemsOf(requests[r].id)) = Len(requests[r].items)
\* C16 as stated: every persisted invoice has total_amount = subtotal +
\* tax_amount, whatever create_invoice and update_invoice requests came before.
C16_TotalsConsistent ==
    \A id \in DOMAIN invoices :
        invoices[id].total_amount = invoices[id].subtotal + invoices[id].tax_amount

\* C19 as stated: between requests every invoice with a recorded payment has
\* the status derived from its completed payments and its total_amount.
C19_StatusFollowsPayments ==
    \A id \in DOMAIN invoices :
        PaymentsOf(id) # {} => invoices[id].status = DerivedStatus(id)
NeverAborts == service.phase # "aborted"

\* what an answer of the process looks like
AnswersWhileServing ==
    /\ last'.op \in {"root", "ping"} => last'.result = "200"
    /\ (last'.op = "health_check" /\ service' = service /\ last' # last)
          => /\ last'.result = "200"
             /\ last'.name = IF service.store = "up" THEN "connected"
                             ELSE "disconnected"

\* C18: with the store reachable or not, and with default users that can or
\* cannot be inserted, the start never aborts and reaches the serving phase;
\* from then on / and /ping answer 200 and /health answers 200 and names the
\* store connected exactly when it is reachable.
C18_StartsWithoutStore ==
    /\ []NeverAborts
    /\ [][AnswersWhileServing]_vars
    /\ <>(service.phase = "serving")
    /\ [](service.phase = "serving" =>
             (ENABLED root /\ ENABLED ping /\ ENABLED health_check))

\* the process started on an unreachable store with an empty users table and
\* /health reported the store disconnected
C18_Witness ==
    /\ service.phase = "serving"
    /\ service.store = "down"
    /\ users = <<>>
    /\ last.op = "health_check"
    /\ last.result = "200"
    /\ last.name = "disconnected"
\* C20 as stated: once every create_payment request has finished, the status
\* write that came last was computed from all the committed payments of the
\* invoice.
C20_LastWriteSeesAllPayments ==
    (/\ \A r \in DOMAIN requests : requests[r].pc \in {"done", "failed"}
     /\ last.op = "create_payment"
     /\ last.result = "ok")
    => last.seen = {p.id : p \in PaymentsOf(last.id)}

\* a request that holds a generated number it has not committed yet
HoldsGenerated(q) ==
    /\ q \in DOMAIN requests
    /\ requests[q].op = "create_invoice"
    /\ requests[q].pc = "commit"
    /\ requests[q].generated

\* C21: nothing serialises the generation of invoice numbers.  A request that
\* generates its number while another request holds a generated number it
\* read from the same count of the month, and has not committed, generates
\* the identical number.
C21_SameCountSameNumber ==
    [][\A r \in DOMAIN requests' \ DOMAIN requests :
          (requests'[r].generated /\ requests'[r].pc = "commit") =>
             \A q \in DOMAIN requests :
                (HoldsGenerated(q) /\ requests[q].count = requests'[r].count) =>
                   requests'[r].number = requests[q].number]_vars

\* two creations in flight hold the identical generated number
C21_Witness ==
    \E q, r \in DOMAIN requests :
       /\ q # r
       /\ HoldsGenerated(q)
       /\ HoldsGenerated(r)
       /\ requests[q].number = requests[r].number

\* C22 as stated: in every month, December included, create_invoice without a
\* number generates INV-{year}{month:02}-{count of the month + 1:04}, and a
\* number the caller supplies is the number of the stored invoice.
C22_NumberEveryMonth ==
    [][last'.op = "create_invoice" =>
          IF last'.generated
          THEN /\ last'.result # "ArgumentError"
               /\ last'.number = InvNumber(today.year, today.month, MonthCount(today) + 1)
          ELSE last'.result = "ok" =>
                  invoices'[last'.id].invoice_number = last'.number]_vars

\* C23 as stated: delete_invoice of an invoice that has payments succeeds,
\* removes the invoice and leaves every payment row as it was, those of the
\* deleted invoice (still carrying its id) and those of the other invoices.
C23_DeleteKeepsPayments ==
    [][(/\ last'.op = "delete_invoice"
        /\ get_invoice(last'.id)
        /\ PaymentsOf(last'.id) # {})
       => (/\ last'.result = "ok"
           /\ last'.id \notin DOMAIN invoices'
           /\ payments' = payments)]_vars

\* the transitions of the state machine as the specification draws it
LifecycleStep(old, new) ==
    \/ new = "inactive"
    \/ <<old, new>> \in {<<"pending", "active">>, <<"active", "suspended">>,
                         <<"suspended", "active">>}

\* C24 as stated: the status of a user changes only along pending -> active,
\* active -> suspended, suspended -> active and anything -> inactive.
C24_LifecycleOnly ==
    [][\A u \in DOMAIN users \cap DOMAIN users' :
          users'[u].status # users[u].status =>
             LifecycleStep(users[u].status, users'[u].status)]_vars

\* C24: the status of a user changes through update_user alone, which stores
\* whatever member of UserStatus the request names, from whatever status the
\* user has; a new user starts as pending and no other operation touches the
\* status.
C24_AnyStatusByUpdate ==
    /\ [](\A u \in DOMAIN users : \A s \in UserStatus :
            ENABLED (update_user(u, "unset", "unset", s) /\ users'[u].status = s))
    /\ [][/\ \A u \in DOMAIN users \cap DOMAIN users' :
               users'[u].status # users[u].status =>
                  (/\ last'.op = "update_user"
                   /\ last'.id = u
                   /\ last'.result = "ok"
                   /\ users'[u].status \in UserStatus)
          /\ \A u \in DOMAIN users' \ DOMAIN users :
               users'[u].status = "pending"]_vars

\* update_user took a user from pending to suspended, or from inactive to active
C24_Witness ==
    /\ last.op = "update_user"
    /\ last.result = "ok"
    /\ last.id \in DOMAIN users
    /\ \/ /\ users[last.id].status = "suspended"
          /\ users[last.id].last_login = Never
          /\ \E a \in audit_logs : a.user_id = last.id /\ a.action = "CREATE_USER"
       \/ /\ users[last.id].status = "active"
          /\ Cardinality({a \in audit_logs :
                            a.user_id = last.id /\ a.action = "UPDATE_USER"}) >= 2

\* the seven statuses the specification gives an invoice
SpecInvoiceStatus ==
    {"draft", "sent", "paid", "partially_paid", "unpaid", "overdue", "cancelled"}

\* C25 as stated: every stored invoice status is one of the seven, and the
\* store accepts each of them, so that the status the recomputation of
\* create_payment computes is always persisted.
C25_SevenStatusesStored ==
    /\ \A id \in DOMAIN invoices : invoices[id].status \in SpecInvoiceStatus
    /\ (last.op = "create_payment" /\ get_invoice(last.id)) =>
          /\ last.result = "ok"
          /\ invoices[last.id].status =
                ComputedStatus(payments, last.id, invoices[last.id].total_amount)

\* C28 as stated: create_payment on an existing invoice leaves its status in
\* {paid, partially_paid, unpaid} whatever it was before, and a payment that
\* is not completed (pending when no status is given) counts for nothing.
C28_StatusAfterPayment ==
    (last.op = "create_payment" /\ get_invoice(last.id)) =>
       /\ invoices[last.id].status \in {"paid", "partially_paid", "unpaid"}
       /\ (/\ invoices[last.id].total_amount > 0
           /\ \A p \in PaymentsOf(last.id) : p.status # "completed")
          => invoices[last.id].status # "paid"

\* C27 as stated: a token that login issued to an account authenticates as
\* that account or not at all, whatever update_user, delete_user and
\* create_user did in between.
C27_TokenKeepsAccount ==
    (last.op = "authenticate" /\ last.result = "ok") =>
        \A g \in issued : g.token = last.token => last.id = g.user

\* C30 as stated: the audit trail matches the committed changes of the users
\* table: a CREATE_USER row exists exactly for the users that were created,
\* and a DELETE_USER row only for a user that is gone.
C30_AuditMatchesChanges ==
    /\ \A a \in audit_logs :
          a.action = "DELETE_USER" => a.user_id \notin DOMAIN users
    /\ \A a \in audit_logs :
          a.action = "CREATE_USER" => a.user_id < nextUserId
    /\ (last.op \in {"create_user", "update_user"} /\ last.result = "ok") =>
          \E a \in audit_logs : a.user_id = last.id

\* C26: whatever the interleaving of create_invoice and update_invoice, no two
\* stored invoices carry the same invoice_number; the commit of a creation
\* whose number is in use at that moment fails, and a request that fails with
\* IntegrityError leaves the invoices table as it was.
C26_NumbersStayUnique ==
    /\ [](\A i, j \in DOMAIN invoices :
             i # j => invoices[i].invoice_number # invoices[j].invoice_number)
    /\ [][/\ \A r \in DOMAIN requests :
                (/\ requests[r].op = "create_invoice"
                 /\ requests[r].pc = "commit"
                 /\ requests'[r].pc # "commit"
                 /\ requests[r].number \in NumbersInUse)
                => (requests'[r].pc = "failed" /\ invoices' = invoices)
          /\ (last' # last /\ last'.result = "IntegrityError")
                => invoices' = invoices]_vars

\* of two creations that generated the same number one is stored, and the
\* commit of the other was refused
C26_Witness ==
    /\ last.op = "create_invoice"
    /\ last.result = "IntegrityError"
    /\ last.generated
    /\ \E i \in DOMAIN invoices : invoices[i].invoice_number = last.number
    /\ \E q, r \in DOMAIN requests :
          /\ requests[q].pc = "failed"
          /\ requests[r].pc \in {"items", "done"}
          /\ requests[q].generated
          /\ requests[r].generated
          /\ requests[q].number = requests[r].number

\* C29 as stated: the uniqueness of the GSTIN survives interleaving: of two
\* create_client / update_client requests served concurrently with the same
\* non-empty GSTIN, at most one ends with its client holding that GSTIN.
C29_GstinUniqueUnderInterleaving ==
    \A q, r \in DOMAIN requests :
        (/\ q # r
         /\ requests[q].op \in {"create_client", "update_client"}
         /\ requests[r].op \in {"create_client", "update_client"}
         /\ requests[q].pc = "done"
         /\ requests[r].pc = "done"
         /\ requests[q].id # requests[r].id
         /\ NonEmpty(requests[q].gstin)
         /\ requests[q].gstin = requests[r].gstin)
        => ~(/\ clients[requests[q].id].gstin = requests[q].gstin
             /\ clients[requests[r].id].gstin = requests[r].gstin)

====
